---- MODULE Spec2Model ----
(***************************************************************************)
(* Model of the two tiers of the Socratic Teaching Assistant demo:         *)
(*   - the chat client (src/App.js): the input field, the message list and *)
(*     handleRunTest, whose body is split at its single await;             *)
(*   - the relay service (src/unnamed/part_000): express.json() followed   *)
(*     by the POST /submit-code handler, split at its single await.        *)
(* A string is a sequence of characters.  The long literals of the source  *)
(* are kept whole, as one-symbol sequences, so that all texts of the       *)
(* message list have the same shape.                                       *)
(***************************************************************************)
EXTENDS Naturals, Sequences, FiniteSets

\* lastOp is "send" when the last step was a press of Send, "other" otherwise.
VARIABLES code, messages, calls, reqs, lastOp

vars == <<code, messages, calls, reqs, lastOp>>

\* ------------------------------------------------------------ bounds
MaxCalls == 2
MaxRaw == 2

Bodies == {"B1", "B2"}
Errors == {"API error"}

\* What the user may have in the input field: nothing, white space only
\* (a space and the newline that Enter types), a plain text, a text with white
\* space around it.
Inputs == {<<>>, <<" ", "\n">>, <<"a">>, <<" ", "a", "\n">>}

\* ------------------------------------------------------------ literals
Undefined == <<"undefined">>
Absent == "absent"
FallbackText == <<"An error occurred while processing your code.">>
RelayMessage == <<"Code processed by Google Gen AI">>
RelayError == "Failed to process code using Google Gen AI API"
NetworkError == "Network Error"
StatusError == "Request failed with status code"
ConstructError == "TypeError"

\* ------------------------------------------------------------ strings
\* The WhiteSpace and LineTerminator code points that trim strips: tab, line
\* feed, vertical tab, form feed, carriage return, space, no-break space, the
\* Zs class, line and paragraph separator, byte order mark.  Those without an
\* escape are written by their code point.
WhiteSpace ==
    {"\t", "\n", "U+000B", "\f", "\r", " ", "U+00A0", "U+1680", "U+2000",
     "U+2001", "U+2002", "U+2003", "U+2004", "U+2005", "U+2006", "U+2007",
     "U+2008", "U+2009", "U+200A", "U+2028", "U+2029", "U+202F", "U+205F",
     "U+3000", "U+FEFF"}

IsSpace(ch) == ch \in WhiteSpace

RECURSIVE TrimStart(_)
TrimStart(s) ==
    IF s # <<>> /\ IsSpace(Head(s)) THEN TrimStart(Tail(s)) ELSE s

RECURSIVE TrimEnd(_)
TrimEnd(s) ==
    IF s # <<>> /\ IsSpace(s[Len(s)]) THEN TrimEnd(SubSeq(s, 1, Len(s) - 1)) ELSE s

\* String.prototype.trim
Trim(s) == TrimEnd(TrimStart(s))

\* The guard of handleRunTest, !code.trim(): the empty string is falsy.
IsBlankLoose(s) == s = <<>>
IsBlank(s) == Trim(s) = <<>>

\* ------------------------------------------------------------ records
Message(sender, text) == [sender |-> sender, text |-> text]

Resp(status, message, data, error) ==
    [status |-> status, message |-> message, data |-> data, error |-> error]

NoResp == Resp(0, Undefined, Absent, Absent)

\* res.json({message: 'Code processed by Google Gen AI', data: response.data})
SuccessRespDropData(response) == Resp(200, RelayMessage, Absent, Absent)
SuccessResp(response) == Resp(200, RelayMessage, response.data, Absent)

\* res.status(500).json({error: 'Failed to process code using Google Gen AI API'})
FailureRespLeak(error) == Resp(500, Undefined, Absent, error)
FailureResp(error) == Resp(500, Undefined, Absent, RelayError)

\* The framework's own answers, sent without the handler's JSON.
ParseErrorAsFailure == Resp(500, Undefined, Absent, RelayError)
ParseErrorResp == Resp(400, Undefined, Absent, Absent)
UncaughtResp == Resp(500, Undefined, Absent, Absent)

\* The request body as it is on the wire.
JsonBody(hasCode, text) == [kind |-> "json", hasCode |-> hasCode, code |-> text]
InvalidBody == [kind |-> "invalid", hasCode |-> FALSE, code |-> Undefined]
NoBody == [kind |-> "none", hasCode |-> FALSE, code |-> Undefined]

RawBodies ==
    {InvalidBody, NoBody, JsonBody(FALSE, Undefined)}
        \cup {JsonBody(TRUE, s) : s \in {<<>>, <<"a">>}}

\* A request to POST /submit-code.  origin is the client call that posted it
\* (0 for another HTTP client); predicts, responses, prompt, predicted and
\* threw record what the handler did for it.
NewReq(origin, body) ==
    [origin |-> origin, raw |-> body, pc |-> "sent", code |-> Undefined,
     handled |-> FALSE, predicts |-> 0, prompt |-> Undefined,
     predicted |-> Absent, threw |-> Absent, responses |-> 0,
     response |-> NoResp]

\* One invocation of handleRunTest past its guard.  userPos and botPos are the
\* places of its two messages, settledAt its rank among the settlements,
\* overlap whether an earlier call was in flight when it was issued, failure
\* what axios rejected with.
NewCall(text, userPos, req, overlap) ==
    [text |-> text, pending |-> TRUE, userPos |-> userPos, botPos |-> 0,
     settledAt |-> 0, req |-> req, overlap |-> overlap, failure |-> Absent]

Pending == {c \in DOMAIN calls : calls[c].pending}
Settled == {c \in DOMAIN calls : ~calls[c].pending}
RawCount == Cardinality({r \in DOMAIN reqs : reqs[r].origin = 0})

\* ------------------------------------------------------------ Init
Init ==
    /\ code = <<>>
    /\ messages = <<>>
    /\ calls = <<>>
    /\ reqs = <<>>
    /\ lastOp = "other"

\* ------------------------------------------------------------ chat client
\* onChange of the textarea: the field is never disabled.
handleCodeChange(v) ==
    /\ v # code
    /\ code' = v
    /\ lastOp' = "other"
    /\ UNCHANGED <<messages, calls, reqs>>

\* The text of the user message.
UserTextTrimmed(s) == Trim(s)
UserText(s) == s

\* The input field once the call has been issued: setCode('') comes after
\* the try/catch, so nothing touches the field here.
FieldAfterSubmitCleared(s) == <<>>
FieldAfterSubmit(s) == s

\* handleRunTest up to its await: the guard, the user message, the POST.
handleRunTest ==
    /\ lastOp' = "send"
    /\ IF IsBlank(code)
       THEN UNCHANGED <<code, messages, calls, reqs>>
       ELSE /\ Len(calls) < MaxCalls
            /\ messages' = Append(messages, Message("user", UserText(code)))
            /\ reqs' = Append(reqs, NewReq(Len(calls) + 1, JsonBody(TRUE, code)))
            /\ calls' = Append(calls, NewCall(code, Len(messages) + 1, Len(reqs) + 1,
                                                 Pending # {}))
            /\ code' = FieldAfterSubmit(code)

\* axios resolves for a 2xx status and rejects for any other.
ValidateStatus(status) == status >= 200 /\ status < 300

\* The bot message of a settlement: response.data.message, or the fallback.
BotTextLeak(ok, response, error) ==
    IF ok THEN response.message ELSE <<error>>
BotText(ok, response, error) ==
    IF ok THEN response.message ELSE FallbackText

\* Where the bot message goes: setMessages(prev => [...prev, bot]).
AddBotAfterUser(list, c, m) ==
    SubSeq(list, 1, calls[c].userPos) \o <<m>>
        \o SubSeq(list, calls[c].userPos + 1, Len(list))
AddBotTwice(list, c, m) == Append(Append(list, m), m)
AddBot(list, c, m) == Append(list, m)

\* handleRunTest after its await: the bot message, then setCode('').
Settle(c, ok, response, error) ==
    /\ c \in Pending
    /\ messages' = AddBot(messages, c, Message("bot", BotText(ok, response, error)))
    /\ calls' = [calls EXCEPT ![c] =
           [@ EXCEPT !.pending = FALSE,
                     !.botPos = Len(messages) + 1,
                     !.settledAt = Cardinality(Settled) + 1,
                     !.failure = IF ok THEN Absent ELSE error]]
    /\ code' = <<>>
    /\ lastOp' = "other"

\* The relay's response reaches axios.
AxiosResponse(c) ==
    /\ c \in Pending
    /\ reqs[calls[c].req].pc = "responded"
    /\ LET response == reqs[calls[c].req].response
       IN Settle(c, ValidateStatus(response.status), response,
                 StatusError)
    /\ UNCHANGED reqs

\* The POST is rejected by the network, at any time before its response is
\* taken, whatever the relay has done or will do with the request.
AxiosNetworkError(c) ==
    /\ c \in Pending
    /\ Settle(c, FALSE, NoResp, NetworkError)
    /\ UNCHANGED reqs

\* ------------------------------------------------------------ relay service
\* Another HTTP client posts to /submit-code.
RawRequest(body) ==
    /\ RawCount < MaxRaw
    /\ reqs' = Append(reqs, NewReq(0, body))
    /\ lastOp' = "other"
    /\ UNCHANGED <<code, messages, calls>>

\* A response is sent for a request.
Respond(q, response) ==
    [q EXCEPT !.pc = "responded", !.responses = @ + 1, !.response = response]

\* The handler from its first line to its await: const {code} = req.body,
\* then google.genai(...) and predict({..., requestBody: {input: {prompt: code}}}).
SubmitCodeHandler(q, hasBody, body, constructThrows) ==
    IF ~hasBody
    THEN Respond([q EXCEPT !.handled = TRUE], UncaughtResp)
    ELSE LET text == IF body.hasCode THEN body.code ELSE Undefined
             h == [q EXCEPT !.handled = TRUE, !.code = text]
         IN IF constructThrows
            THEN Respond([h EXCEPT !.threw = ConstructError],
                         FailureResp(ConstructError))
            ELSE [h EXCEPT !.pc = "awaiting", !.predicts = @ + 1, !.prompt = text]

\* express.json(), then the handler.  A body that is not JSON is answered by
\* the framework with 400; a request without a body reaches the handler with
\* req.body either {} or undefined, depending on the framework's version.
Receive(r, bodyUndefined, constructThrows) ==
    /\ r \in DOMAIN reqs
    /\ reqs[r].pc = "sent"
    /\ LET q == reqs[r]
       IN reqs' = [reqs EXCEPT ![r] =
             IF q.raw.kind = "invalid"
             THEN Respond(q, ParseErrorResp)
             ELSE IF q.raw.kind = "none"
                  THEN SubmitCodeHandler(q, ~bodyUndefined,
                                         JsonBody(FALSE, Undefined), constructThrows)
                  ELSE SubmitCodeHandler(q, TRUE, q.raw, constructThrows)]
    /\ lastOp' = "other"
    /\ UNCHANGED <<code, messages, calls>>

\* predict resolves with a response whose body is B.
PredictResolves(r, B) ==
    /\ r \in DOMAIN reqs
    /\ reqs[r].pc = "awaiting"
    /\ LET response == [data |-> B]
       IN reqs' = [reqs EXCEPT ![r] =
             Respond([@ EXCEPT !.predicted = B], SuccessResp(response))]
    /\ lastOp' = "other"
    /\ UNCHANGED <<code, messages, calls>>

\* The catch branch of the handler.
CatchRetry(q, error) ==
    [q EXCEPT !.threw = error, !.predicts = @ + 1]
Catch(q, error) ==
    Respond([q EXCEPT !.threw = error], FailureResp(error))

\* predict rejects.
PredictRejects(r, error) ==
    /\ r \in DOMAIN reqs
    /\ reqs[r].pc = "awaiting"
    /\ reqs' = [reqs EXCEPT ![r] = Catch(@, error)]
    /\ lastOp' = "other"
    /\ UNCHANGED <<code, messages, calls>>

\* ------------------------------------------------------------ specification
\* The relay serving one request.
Relay ==
    \/ \E r \in DOMAIN reqs, u \in BOOLEAN, t \in BOOLEAN : Receive(r, u, t)
    \/ \E r \in DOMAIN reqs, B \in Bodies : PredictResolves(r, B)
    \/ \E r \in DOMAIN reqs, e \in Errors : PredictRejects(r, e)

\* The chat client in front of the relay.
Next ==
    \/ \E v \in Inputs : handleCodeChange(v)
    \/ handleRunTest
    \/ \E c \in DOMAIN calls : AxiosResponse(c)
    \/ \E c \in DOMAIN calls : AxiosNetworkError(c)
    \/ Relay

Spec == Init /\ [][Next]_vars

\* The relay on its own, posted to by any HTTP client.
NextRelay ==
    \/ \E body \in RawBodies : RawRequest(body)
    \/ Relay

SpecRelay == Init /\ [][NextRelay]_vars

\* ------------------------------------------------------------ helpers of the claims
IsPrefix(s, t) == Len(s) <= Len(t) /\ SubSeq(t, 1, Len(s)) = s

WhitespaceOnly(s) == \A i \in 1..Len(s) : s[i] \in WhiteSpace

BotCount == Cardinality({i \in 1..Len(messages) : messages[i].sender = "bot"})
UserCount == Cardinality({i \in 1..Len(messages) : messages[i].sender = "user"})

Responded == {r \in DOMAIN reqs : reqs[r].pc = "responded"}

\* The two responses of the handler.
IsSuccess(response) ==
    /\ response.status = 200
    /\ response.message = RelayMessage
    /\ response.data \in Bodies
    /\ response.error = Absent

IsFixedFailure(response) ==
    response = Resp(500, Undefined, Absent, RelayError)

\* ------------------------------------------------------------ C1
\* C1: every settled call has exactly one bot message, placed after its user
\* message; the bot messages are as many as the settled calls and never more
\* than the user messages; the counts are equal once no call is pending; and
\* when no call was issued while another was in flight, each user message is
\* directly followed by its bot message.
C1_OneBotPerSubmit ==
    /\ BotCount = Cardinality(Settled)
    /\ UserCount = Len(calls)
    /\ BotCount <= UserCount
    /\ (Pending = {} => BotCount = UserCount)
    /\ \A c \in DOMAIN calls :
          /\ calls[c].userPos \in 1..Len(messages)
          /\ messages[calls[c].userPos].sender = "user"
    /\ \A c \in Settled :
          /\ calls[c].botPos \in 1..Len(messages)
          /\ calls[c].botPos > calls[c].userPos
          /\ messages[calls[c].botPos].sender = "bot"
          /\ \A d \in Settled : d # c => calls[d].botPos # calls[c].botPos
    /\ (\A c \in DOMAIN calls : ~calls[c].overlap) =>
          /\ \A c \in Settled : calls[c].botPos = calls[c].userPos + 1
          /\ \A c \in Pending : calls[c].userPos = Len(messages)

\* Two overlapping calls, both settled, the second one first; the first was
\* rejected by the network although the relay handled and answered it.
C1_Witness ==
    /\ Len(calls) = 2
    /\ Pending = {}
    /\ calls[2].overlap
    /\ calls[2].botPos < calls[1].botPos
    /\ calls[1].failure = NetworkError
    /\ reqs[calls[1].req].predicts = 1
    /\ reqs[calls[1].req].response.status = 200
    /\ calls[2].failure = Absent

\* ------------------------------------------------------------ C2
\* C2: pressing Send while the input is empty or white space only changes
\* neither the message list, nor the calls and requests issued, nor the input
\* field, whatever is in flight.
C2_BlankSubmitNoOp ==
    [][(lastOp' = "send" /\ WhitespaceOnly(code))
          => UNCHANGED <<code, messages, calls, reqs>>]_vars

\* Send pressed on a white-space-only input while two calls are in flight.
C2_Witness ==
    /\ lastOp = "send"
    /\ code = <<" ", "\n">>
    /\ Pending = {1, 2}

\* ------------------------------------------------------------ C3
\* C3: a non-blank submit appends exactly the message {user, s}, s being the
\* input as typed, to the end of the list, in the step that issues the call;
\* so the user message of every pending call is in the list.
C3_UserMessageAtSubmit ==
    [][/\ (lastOp' = "send" /\ ~WhitespaceOnly(code)) =>
             /\ messages' = Append(messages, Message("user", code))
             /\ Len(calls') = Len(calls) + 1
             /\ calls'[Len(calls')].pending
             /\ reqs'[calls'[Len(calls')].req].pc = "sent"
       /\ \A c \in DOMAIN calls' :
             calls'[c].pending =>
                /\ calls'[c].userPos <= Len(messages')
                /\ messages'[calls'[c].userPos] = Message("user", calls'[c].text)]_vars

\* A call in flight for an input with white space around it.
C3_Witness ==
    \E c \in Pending :
        /\ calls[c].text = <<" ", "a", "\n">>
        /\ messages[calls[c].userPos] = Message("user", <<" ", "a", "\n">>)
        /\ reqs[calls[c].req].pc = "awaiting"

\* ------------------------------------------------------------ C4
\* C4: the bot text of a settled call is the message field of the response
\* when the call got a 2xx response, and the fixed fallback text when the call
\* was rejected by the network or got any other status; no other text ever is
\* a bot text.
C4_BotTextByOutcome ==
    /\ \A c \in Settled :
          LET text == messages[calls[c].botPos].text
              response == reqs[calls[c].req].response
          IN IF calls[c].failure = NetworkError
             THEN text = FallbackText
             ELSE IF response.status = 200
                  THEN text = response.message /\ text = RelayMessage
                  ELSE text = FallbackText
    /\ \A i \in 1..Len(messages) :
          messages[i].sender = "bot" =>
              messages[i].text \in {RelayMessage, FallbackText}

\* One call answered 200, one answered 500 by the relay after predict failed.
C4_Witness ==
    /\ Len(calls) = 2
    /\ Pending = {}
    /\ reqs[calls[1].req].response.status = 200
    /\ messages[calls[1].botPos].text = RelayMessage
    /\ calls[1].failure = Absent
    /\ reqs[calls[2].req].response.status = 500
    /\ reqs[calls[2].req].threw \in Errors
    /\ calls[2].failure = StatusError
    /\ messages[calls[2].botPos].text = FallbackText

\* ------------------------------------------------------------ C5
\* C5: a request whose predict call returned a response with body B is
\* answered 200 with the constant message and data B.
C5_SuccessRelaysBody ==
    \A r \in DOMAIN reqs :
        reqs[r].predicted # Absent =>
            /\ reqs[r].pc = "responded"
            /\ reqs[r].response = Resp(200, RelayMessage, reqs[r].predicted, Absent)

\* Two requests with different code and different bodies, both answered 200.
C5_Witness ==
    /\ Len(reqs) = 2
    /\ reqs[1].code = <<"a">> /\ reqs[1].predicted = "B1"
    /\ reqs[2].code = <<>> /\ reqs[2].raw.hasCode /\ reqs[2].predicted = "B2"
    /\ reqs[1].response.data = "B1"
    /\ reqs[2].response.data = "B2"
    /\ reqs[1].response.message = reqs[2].response.message

\* ------------------------------------------------------------ C6
\* C6: a request for which the construction of the API client or the predict
\* call threw is answered once, with status 500 and the fixed error, whatever
\* was thrown and whatever the code; it gets no 200.
C6_ThrowGivesFixed500 ==
    \A r \in DOMAIN reqs :
        reqs[r].threw # Absent =>
            /\ reqs[r].pc = "responded"
            /\ reqs[r].responses = 1
            /\ reqs[r].response = Resp(500, Undefined, Absent, RelayError)
            /\ reqs[r].predicted = Absent

\* The construction threw for one request, predict for another, with
\* different code.
C6_Witness ==
    /\ Len(reqs) = 2
    /\ reqs[1].threw = ConstructError
    /\ reqs[1].code = <<"a">>
    /\ reqs[2].threw = "API error"
    /\ reqs[2].code = Undefined
    /\ reqs[1].response = reqs[2].response

\* ------------------------------------------------------------ C7
\* C7 as stated: every answered request got the 200 success response or the
\* 500 response with the fixed error.
C7_TwoOutcomes ==
    \A r \in Responded :
        IsSuccess(reqs[r].response) \/ IsFixedFailure(reqs[r].response)

\* C7 as amended: a request whose body is a JSON object, with or without a
\* code field, gets the 200 success response or the 500 response with the
\* fixed error; a body that is not JSON is answered 400 by the body parser and
\* the handler never runs for it; a request without a body gets one of the two
\* responses or, when req.body is undefined, the framework's own 500.
C7_TwoOutcomesOnceParsed ==
    \A r \in Responded :
        LET q == reqs[r]
        IN /\ q.raw.kind = "json" =>
                 /\ q.handled
                 /\ IsSuccess(q.response) \/ IsFixedFailure(q.response)
           /\ q.raw.kind = "invalid" =>
                 /\ q.response.status = 400
                 /\ ~q.handled
                 /\ q.predicts = 0
                 /\ ~IsFixedFailure(q.response)
           /\ q.raw.kind = "none" =>
                 \/ IsSuccess(q.response)
                 \/ IsFixedFailure(q.response)
                 \/ q.response = UncaughtResp /\ q.predicts = 0

\* A JSON body without code answered with the fixed 500 beside a body that is
\* not JSON answered 400.
C7_Witness ==
    /\ Len(reqs) = 2
    /\ reqs[1].raw = JsonBody(FALSE, Undefined)
    /\ reqs[1].pc = "responded"
    /\ IsFixedFailure(reqs[1].response)
    /\ reqs[2].raw.kind = "invalid"
    /\ reqs[2].pc = "responded"

\* ------------------------------------------------------------ C8
\* C8 as stated: the step of a non-blank submit, which appends the user
\* message and issues the call, also clears the input field, so that the field
\* is empty while the call is in flight.
C8_FieldClearedAtSubmit ==
    [][(lastOp' = "send" /\ ~WhitespaceOnly(code)) => code' = <<>>]_vars

\* C8 as amended: the step of a non-blank submit appends the user message and
\* issues the call and leaves the input field as it is, so that the field
\* still holds the submitted text right after it and a second Send resubmits
\* it; the field is cleared by the settlement, in the step that appends the
\* bot message.
C8_FieldClearedOnSettle ==
    [][/\ (lastOp' = "send" /\ ~WhitespaceOnly(code)) =>
             /\ code' = code
             /\ code' = calls'[Len(calls')].text
             /\ messages' = Append(messages, Message("user", code))
       /\ (Len(messages') > Len(messages)
               /\ messages'[Len(messages')].sender = "bot") =>
             /\ code' = <<>>
             /\ Cardinality(Pending') = Cardinality(Pending) - 1]_vars

\* Send pressed twice in a row: two calls in flight with the same text, which
\* the field still holds.
C8_Witness ==
    /\ Len(calls) = 2
    /\ Pending = {1, 2}
    /\ reqs[1].pc = "sent"
    /\ reqs[2].pc = "sent"
    /\ lastOp = "send"
    /\ calls[1].text = calls[2].text
    /\ messages = <<Message("user", code), Message("user", code)>>

\* ------------------------------------------------------------ C9
\* C9: every step leaves the message list as a prefix of the new one; the user
\* messages are in the order of the submits and the bot messages in the order
\* in which the calls settled.
C9_OrderOK ==
    /\ \A c, d \in DOMAIN calls :
          c < d => calls[c].userPos < calls[d].userPos
    /\ \A c, d \in Settled :
          calls[c].settledAt < calls[d].settledAt =>
              calls[c].botPos < calls[d].botPos
    /\ \A c \in DOMAIN calls :
          /\ calls[c].userPos <= Len(messages)
          /\ messages[calls[c].userPos] = Message("user", calls[c].text)
    /\ \A c \in Settled :
          /\ calls[c].botPos <= Len(messages)
          /\ messages[calls[c].botPos].sender = "bot"

C9_AppendOnly ==
    [][IsPrefix(messages, messages')]_vars /\ []C9_OrderOK

\* The second call settled before the first: the bot messages are not in the
\* order of the submits.
C9_Witness ==
    /\ Len(calls) = 2
    /\ Pending = {}
    /\ calls[1].text # calls[2].text
    /\ calls[2].settledAt = 1
    /\ calls[1].settledAt = 2
    /\ calls[2].botPos = 3
    /\ calls[1].botPos = 4

\* ------------------------------------------------------------ C10
\* C10: every call of the client has exactly one request, carrying as code
\* the text of its user message; every request has at most one predict call,
\* with its own code as the prompt, and at most one response, exactly one
\* once answered; a request that failed has no second predict call; the data
\* of a 200 response is what the request's own predict call returned.
C10_NoRetry ==
    /\ \A c \in DOMAIN calls :
          /\ Cardinality({r \in DOMAIN reqs : reqs[r].origin = c}) = 1
          /\ reqs[calls[c].req].origin = c
          /\ reqs[calls[c].req].raw = JsonBody(TRUE, calls[c].text)
          /\ reqs[calls[c].req].raw.code = messages[calls[c].userPos].text
    /\ \A r \in DOMAIN reqs :
          /\ reqs[r].predicts <= 1
          /\ reqs[r].responses <= 1
          /\ (reqs[r].pc = "responded") = (reqs[r].responses = 1)
          /\ reqs[r].predicts = 1 => reqs[r].prompt = reqs[r].raw.code
          /\ reqs[r].pc = "awaiting" => reqs[r].threw = Absent
          /\ reqs[r].response.status = 200 =>
                reqs[r].response.data = reqs[r].predicted

\* Two requests in flight together, one failed and one answered, each with its
\* own prompt and data.
C10_Witness ==
    /\ Len(reqs) = 2
    /\ reqs[1].prompt # reqs[2].prompt
    /\ reqs[1].predicts = 1 /\ reqs[2].predicts = 1
    /\ reqs[1].threw \in Errors
    /\ reqs[1].responses = 1
    /\ reqs[2].response.data = "B2"
    /\ calls[2].overlap

====
